---- MODULE Spec2Model ----
(***************************************************************************)
(* Model of the morristown terminal prompting library (src/src/lib.rs).    *)
(*                                                                         *)
(* Text is a sequence of one-character strings.  The standard input is an  *)
(* environment that hands one raw line to each read; the standard output   *)
(* is the sequence of lines written since the current call began.          *)
(***************************************************************************)
EXTENDS Integers, Sequences, FiniteSets, TLC

\* Bounds of the model.
MaxReads == 3           \* read attempts followed within one call
MaxCount == 2           \* largest element count a count constraint names

\* The instantiation of the type parameter T (i8) and the u8 of prompt_bool.
TMin == -128
TMax == 127
U8Max == 255

----------------------------------------------------------------------------
\* Text primitives of the standard library as lib.rs uses them.

WhiteSpace == {" ", "\n", "\t", "\r"}

\* char::to_uppercase on the letters the inputs use
UpperChar(c) ==
    CASE c = "a" -> "A" [] c = "b" -> "B" [] c = "c" -> "C"
      [] c = "e" -> "E" [] c = "n" -> "N" [] c = "o" -> "O"
      [] c = "s" -> "S" [] c = "x" -> "X" [] c = "y" -> "Y"
      [] OTHER -> c

to_uppercase(s) == [i \in 1..Len(s) |-> UpperChar(s[i])]

RECURSIVE trim_start(_)
trim_start(s) ==
    IF s # <<>> /\ Head(s) \in WhiteSpace THEN trim_start(Tail(s)) ELSE s

RECURSIVE trim_end(_)
trim_end(s) ==
    IF s # <<>> /\ s[Len(s)] \in WhiteSpace
    THEN trim_end(SubSeq(s, 1, Len(s) - 1))
    ELSE s

trim(s) == trim_end(trim_start(s))

\* Does pattern p occur in s at position i (1-based)?
MatchAt(s, p, i) ==
    /\ i + Len(p) - 1 <= Len(s)
    /\ \A k \in 1..Len(p) : s[i + k - 1] = p[k]

\* Mutant of split: empty pieces are dropped.
RECURSIVE split_skip_empty(_, _)
split_skip_empty(s, sep) ==
    IF sep = <<>>
    THEN [i \in 1..Len(s) |-> <<s[i]>>]
    ELSE LET hits == {i \in 1..Len(s) : MatchAt(s, sep, i)}
         IN  IF hits = {}
             THEN IF s = <<>> THEN <<>> ELSE <<s>>
             ELSE LET i == CHOOSE j \in hits : \A k \in hits : j <= k
                  IN  (IF i = 1 THEN <<>> ELSE <<SubSeq(s, 1, i - 1)>>)
                      \o split_skip_empty(SubSeq(s, i + Len(sep), Len(s)), sep)

\* str::split with a literal pattern.  An empty pattern matches at every
\* character boundary, both ends included.
RECURSIVE split(_, _)
split(s, sep) ==
    IF sep = <<>>
    THEN <<<<>>>> \o [i \in 1..Len(s) |-> <<s[i]>>] \o <<<<>>>>
    ELSE LET hits == {i \in 1..Len(s) : MatchAt(s, sep, i)}
         IN  IF hits = {}
             THEN <<s>>
             ELSE LET i == CHOOSE j \in hits : \A k \in hits : j <= k
                  IN  <<SubSeq(s, 1, i - 1)>>
                      \o split(SubSeq(s, i + Len(sep), Len(s)), sep)

Digits == {"0", "1", "2", "3", "4", "5", "6", "7", "8", "9"}

DigitVal(c) ==
    CASE c = "0" -> 0 [] c = "1" -> 1 [] c = "2" -> 2 [] c = "3" -> 3
      [] c = "4" -> 4 [] c = "5" -> 5 [] c = "6" -> 6 [] c = "7" -> 7
      [] c = "8" -> 8 [] c = "9" -> 9

RECURSIVE Magnitude(_, _)
Magnitude(ds, acc) ==
    IF ds = <<>> THEN acc
    ELSE Magnitude(Tail(ds), acc * 10 + DigitVal(Head(ds)))

ParseErr == [ok |-> FALSE, n |-> 0]

\* <integer>::from_str: an optional sign, then decimal digits; the empty
\* text, a lone sign, a non-digit and a value outside [lo, hi] are errors.
from_str(s, signed, lo, hi) ==
    IF s = <<>> THEN ParseErr
    ELSE IF Len(s) = 1 /\ s[1] \in {"+", "-"} THEN ParseErr
    ELSE LET neg == signed /\ s[1] = "-"
             ds  == IF s[1] = "+" \/ neg THEN Tail(s) ELSE s
         IN  IF \E i \in 1..Len(ds) : ds[i] \notin Digits THEN ParseErr
             ELSE LET v == IF neg THEN 0 - Magnitude(ds, 0)
                           ELSE Magnitude(ds, 0)
                  IN  IF v < lo \/ v > hi THEN ParseErr
                      ELSE [ok |-> TRUE, n |-> v]

\* Mutant of parse_u8: the digits are accumulated with wrap-around.
parse_u8_wrapping(s) ==
    LET r == from_str(s, FALSE, 0, 999)
    IN  IF r.ok THEN [ok |-> TRUE, n |-> r.n % (U8Max + 1)] ELSE r

\* str::parse::<T>() and str::parse::<u8>()
parse_T(s) == from_str(s, TRUE, TMin, TMax)
parse_u8(s) == from_str(s, FALSE, 0, U8Max)

\* Mutants of contains: the upper bound excluded; either bound sufficing.
contains_exclusive(r, x) == r.lo <= x /\ x < r.hi
contains_either(r, x) == r.lo <= x \/ x <= r.hi

\* RangeInclusive::contains
contains(r, x) == r.lo <= x /\ x <= r.hi

----------------------------------------------------------------------------
\* Output lines: <<text, a, b>>, a and b the values formatted into the text.

OutLine(text, a, b) == <<text, a, b>>
Msg == OutLine("MSG", 0, 0)


----------------------------------------------------------------------------
\* Argument and result values.

\* Option<PromptMultiOption>
NoOption == [tag |-> "None", a |-> 0, lo |-> 0, hi |-> 0]
UnitAmount(a) == [tag |-> "UnitAmount", a |-> a, lo |-> 0, hi |-> 0]
UnitAmountRange(lo, hi) == [tag |-> "UnitAmountRange", a |-> 0, lo |-> lo, hi |-> hi]

\* Option<RangeInclusive<T>>
NoRange == [some |-> FALSE, lo |-> 0, hi |-> 0]
SomeRange(lo, hi) == [some |-> TRUE, lo |-> lo, hi |-> hi]

\* Instructions::new and Instructions::new_multiline; a body text is named
\* by a number, 0 naming the empty text.
Instructions_new(ask_to_show, numeric, instructions) ==
    [ask_numeric |-> <<ask_to_show, numeric>>,
     instructions |-> instructions,
     instructions_multiline |-> <<>>,
     multiline |-> FALSE]

Instructions_new_multiline(ask_to_show, numeric, instructions) ==
    [ask_numeric |-> <<ask_to_show, numeric>>,
     instructions |-> 0,
     instructions_multiline |-> instructions,
     multiline |-> TRUE]

NoRet == [kind |-> "none", b |-> FALSE, n |-> 0, s |-> <<>>, v |-> <<>>]
RetUnit == [NoRet EXCEPT !.kind = "unit"]
RetBool(b) == [NoRet EXCEPT !.kind = "bool", !.b = b]
RetNum(n) == [NoRet EXCEPT !.kind = "num", !.n = n]
RetStr(s) == [NoRet EXCEPT !.kind = "str", !.s = s]
RetVec(v) == [NoRet EXCEPT !.kind = "vec", !.v = v]

NoArgs ==
    [numeric |-> FALSE, sep |-> <<>>, option |-> NoOption, range |-> NoRange,
     self |-> Instructions_new(FALSE, FALSE, 0)]

----------------------------------------------------------------------------
\* The inputs the environment and the callers draw from.

Lines ==
    { <<"\n">>,
      <<" ", "y", "e", "s", " ", "\n">>,
      <<"Y", "\n">>,
      <<"n", "O", "\n">>,
      <<"n">>,
      <<"y", "e", "\n">>,
      <<"1", "\n">>,
      <<"0", "\n">>,
      <<" ", "1", "\t", "\n">>,
      <<"2", "\n">>,
      <<"+", "1", "\n">>,
      <<"-", "1", "\n">>,
      <<"2", "0", "0", "\n">>,
      <<"2", "5", "6", "\n">>,
      <<"2", "5", "7", "\n">>,
      <<"a", ",", "b", ",", "c", "\n">>,
      <<"a", ",", "b", "\n">>,
      <<"1", " ", "2", " ", "x", "\n">>,
      <<"1", " ", "2", " ", "3", "\n">>,
      <<"1", ",", "2", "\n">>,
      <<"3", ",", "1", "\n">>,
      <<"1", ",", " ", "2", "\n">>,
      <<"2", "0", " ", "x", "\n">>,
      <<"x", " ", "2", "0", "\n">>,
      <<"1", ",", ",", "2", "\n">>,
      <<"1", ",", "\n">> }

Seps == { <<",">>, <<" ">>, <<>> }

CountOptions ==
    {NoOption}
    \cup {UnitAmount(a) : a \in 0..MaxCount}
    \cup {UnitAmountRange(lo, hi) : lo \in 0..MaxCount, hi \in 0..MaxCount}

ValueRanges ==
    {SomeRange(0, 10), SomeRange(0, 2), SomeRange(2, 2), SomeRange(2, 0)}

InstructionSets ==
    {Instructions_new(a, n, 1) : a \in BOOLEAN, n \in BOOLEAN}
    \cup {Instructions_new_multiline(a, n, b) :
            a \in BOOLEAN, n \in BOOLEAN, b \in {<<>>, <<1>>, <<2, 1>>}}

----------------------------------------------------------------------------
VARIABLES
    fn,         \* the public function being executed
    args,       \* its arguments
    pc,         \* "idle", "loop" (at the loop head), "read" (blocked in
                \* read_line), "done" (returned), "panicked"
    stdin,      \* "open", or "eof" once the end of the stream was met
    line,       \* the raw text the last read_line of this call received
    out,        \* lines written to the standard output by this call
    ret,        \* the value returned
    reads,      \* read_line calls made by this call
    boolCalls   \* prompt_bool invocations made by this call

vars == <<fn, args, pc, stdin, line, out, ret, reads, boolCalls>>

Init ==
    /\ fn = "none"
    /\ args = NoArgs
    /\ pc = "idle"
    /\ stdin = "open"
    /\ line = <<>>
    /\ out = <<>>
    /\ ret = NoRet
    /\ reads = 0
    /\ boolCalls = 0

\* Mutant of read_line: the letter case is kept.
read_line_no_uppercase(raw) == trim(raw)

\* fn read_line: the buffer read_line fills is empty at end of file (Ok(0)).
read_line(raw) == to_uppercase(trim(raw))


\* fn read_number::<T> and read_number::<u8>
read_number(raw) == parse_T(read_line(raw))
read_number_u8(raw) == parse_u8(read_line(raw))

----------------------------------------------------------------------------
\* One pass of each loop body after its println!("{}", msg), from the
\* read_line to the return or to the end of the body:
\* [done, ret, out] with out the lines the pass prints.

Accept(r) == [done |-> TRUE, ret |-> r, out |-> <<>>]
Reject(text, a, b) == [done |-> FALSE, ret |-> NoRet, out |-> <<OutLine(text, a, b)>>]

\* Mutant of prompt_string_body: an empty answer is asked for again.
prompt_string_body_retry_empty(raw) ==
    IF read_line(raw) = <<>> THEN Reject("ENTER A VALID NUMBER", 0, 0)
    ELSE Accept(RetStr(read_line(raw)))

prompt_string_body(raw) == Accept(RetStr(read_line(raw)))

\* Mutant of prompt_bool_body: every number but 0 answers true.
prompt_bool_body_nonzero(raw, numeric) ==
    IF numeric
    THEN LET r == read_number_u8(raw)
         IN  IF r.ok
             THEN IF r.n = 0 THEN Accept(RetBool(FALSE))
                  ELSE Accept(RetBool(TRUE))
             ELSE Reject("ENTER A NUMBER (1 OR 0)", 0, 0)
    ELSE LET input == read_line(raw)
         IN  IF input \in {<<"Y", "E", "S">>, <<"Y">>} THEN Accept(RetBool(TRUE))
             ELSE IF input \in {<<"N", "O">>, <<"N">>} THEN Accept(RetBool(FALSE))
             ELSE Reject("ENTER (Y)ES OR (N)O", 0, 0)

prompt_bool_body(raw, numeric) ==
    IF numeric
    THEN LET r == read_number_u8(raw)
         IN  IF r.ok
             THEN IF r.n = 1 THEN Accept(RetBool(TRUE))
                  ELSE IF r.n = 0 THEN Accept(RetBool(FALSE))
                  ELSE Reject("ENTER 1 (YES) OR 0 (NO)", 0, 0)
             ELSE Reject("ENTER A NUMBER (1 OR 0)", 0, 0)
    ELSE LET input == read_line(raw)
         IN  IF input \in {<<"Y", "E", "S">>, <<"Y">>} THEN Accept(RetBool(TRUE))
             ELSE IF input \in {<<"N", "O">>, <<"N">>} THEN Accept(RetBool(FALSE))
             ELSE Reject("ENTER (Y)ES OR (N)O", 0, 0)

\* Mutant of prompt_number_body: only a positive number is returned.
prompt_number_body_positive(raw) ==
    LET r == read_number(raw)
    IN  IF r.ok /\ r.n > 0 THEN Accept(RetNum(r.n))
        ELSE Reject("ENTER A VALID NUMBER", 0, 0)

prompt_number_body(raw) ==
    LET r == read_number(raw)
    IN  IF r.ok THEN Accept(RetNum(r.n))
        ELSE Reject("ENTER A VALID NUMBER", 0, 0)

prompt_number_range_body(raw, range) ==
    LET r == read_number(raw)
    IN  IF r.ok
        THEN IF contains(range, r.n) THEN Accept(RetNum(r.n))
             ELSE Reject("ENTER A NUMBER WITHIN", range.lo, range.hi)
        ELSE Reject("ENTER A VALID NUMBER", 0, 0)

\* Mutant of check_multi_option: an exact count accepts any larger count.
check_multi_option_at_least(o, l) ==
    IF o.tag = "UnitAmount"
    THEN IF l >= o.a THEN [ok |-> TRUE, out |-> <<>>]
         ELSE [ok |-> FALSE, out |-> <<OutLine("THERE MUST BE UNITS", o.a, 0)>>]
    ELSE IF contains(o, l) THEN [ok |-> TRUE, out |-> <<>>]
         ELSE [ok |-> FALSE,
               out |-> <<OutLine("AMOUNT OF UNITS MUST BE WITHIN", o.lo, o.hi)>>]

\* fn check_multi_option: [ok, out]
check_multi_option(o, l) ==
    IF o.tag = "UnitAmount"
    THEN IF l = o.a THEN [ok |-> TRUE, out |-> <<>>]
         ELSE [ok |-> FALSE, out |-> <<OutLine("THERE MUST BE UNITS", o.a, 0)>>]
    ELSE IF contains(o, l) THEN [ok |-> TRUE, out |-> <<>>]
         ELSE [ok |-> FALSE,
               out |-> <<OutLine("AMOUNT OF UNITS MUST BE WITHIN", o.lo, o.hi)>>]

prompt_multi_string_body(raw, separator, option) ==
    LET input == split(read_line(raw), separator)
    IN  IF option.tag # "None"
        THEN LET c == check_multi_option(option, Len(input))
             IN  IF c.ok THEN Accept(RetVec(input))
                 ELSE [done |-> FALSE, ret |-> NoRet, out |-> c.out]
        ELSE Accept(RetVec(input))

\* Mutant of parse_elements: no break after a diagnostic, the loop goes on.
RECURSIVE parse_elements_no_break(_, _, _, _)
parse_elements_no_break(input, range, i, nums) ==
    IF i > Len(input) THEN [ok |-> TRUE, nums |-> nums, out |-> <<>>]
    ELSE LET p == parse_T(input[i])
             rest == parse_elements_no_break(input, range, i + 1, nums)
         IN  IF p.ok
             THEN IF range.some /\ ~contains(range, p.n)
                  THEN [ok |-> FALSE, nums |-> rest.nums,
                        out |-> <<OutLine("NUMBER MUST BE WITHIN", range.lo, range.hi)>>
                                \o rest.out]
                  ELSE parse_elements_no_break(input, range, i + 1, Append(nums, p.n))
             ELSE [ok |-> FALSE, nums |-> rest.nums,
                   out |-> <<OutLine("ENTER ONLY NUMBERS", 0, 0)>> \o rest.out]

\* Mutant of parse_elements: an element that does not parse is skipped.
RECURSIVE parse_elements_skip_unparsed(_, _, _, _)
parse_elements_skip_unparsed(input, range, i, nums) ==
    IF i > Len(input) THEN [ok |-> TRUE, nums |-> nums, out |-> <<>>]
    ELSE LET p == parse_T(input[i])
         IN  IF p.ok
             THEN IF range.some /\ ~contains(range, p.n)
                  THEN [ok |-> FALSE, nums |-> nums,
                        out |-> <<OutLine("NUMBER MUST BE WITHIN", range.lo, range.hi)>>]
                  ELSE parse_elements_skip_unparsed(input, range, i + 1,
                                                    Append(nums, p.n))
             ELSE parse_elements_skip_unparsed(input, range, i + 1, nums)

\* Mutant of parse_elements: each element is trimmed before it is parsed.
RECURSIVE parse_elements_trimmed(_, _, _, _)
parse_elements_trimmed(input, range, i, nums) ==
    IF i > Len(input) THEN [ok |-> TRUE, nums |-> nums, out |-> <<>>]
    ELSE LET p == parse_T(trim(input[i]))
         IN  IF p.ok
             THEN IF range.some /\ ~contains(range, p.n)
                  THEN [ok |-> FALSE, nums |-> nums,
                        out |-> <<OutLine("NUMBER MUST BE WITHIN", range.lo, range.hi)>>]
                  ELSE parse_elements_trimmed(input, range, i + 1, Append(nums, p.n))
             ELSE [ok |-> FALSE, nums |-> nums,
                   out |-> <<OutLine("ENTER ONLY NUMBERS", 0, 0)>>]

\* Mutant of parse_elements: every element is parsed before any is
\* checked against the range.
RECURSIVE parse_elements_parse_first(_, _, _, _)
parse_elements_parse_first(input, range, i, nums) ==
    IF \E k \in i..Len(input) : ~parse_T(input[k]).ok
    THEN [ok |-> FALSE, nums |-> nums, out |-> <<OutLine("ENTER ONLY NUMBERS", 0, 0)>>]
    ELSE IF i > Len(input) THEN [ok |-> TRUE, nums |-> nums, out |-> <<>>]
    ELSE LET p == parse_T(input[i])
         IN  IF range.some /\ ~contains(range, p.n)
             THEN [ok |-> FALSE, nums |-> nums,
                   out |-> <<OutLine("NUMBER MUST BE WITHIN", range.lo, range.hi)>>]
             ELSE parse_elements_parse_first(input, range, i + 1, Append(nums, p.n))

\* The for loop of prompt_multi_number from element i on: [ok, nums, out].
RECURSIVE parse_elements(_, _, _, _)
parse_elements(input, range, i, nums) ==
    IF i > Len(input) THEN [ok |-> TRUE, nums |-> nums, out |-> <<>>]
    ELSE LET p == parse_T(input[i])
         IN  IF p.ok
             THEN IF range.some
                  THEN IF contains(range, p.n)
                       THEN parse_elements(input, range, i + 1, Append(nums, p.n))
                       ELSE [ok |-> FALSE, nums |-> nums,
                             out |-> <<OutLine("NUMBER MUST BE WITHIN", range.lo, range.hi)>>]
                  ELSE parse_elements(input, range, i + 1, Append(nums, p.n))
             ELSE [ok |-> FALSE, nums |-> nums,
                   out |-> <<OutLine("ENTER ONLY NUMBERS", 0, 0)>>]

\* Mutant of prompt_multi_number_body: the elements are parsed before the
\* count is checked.
prompt_multi_number_body_count_last(raw, separator, option, range) ==
    LET input == split(read_line(raw), separator)
        e == parse_elements(input, range, 1, <<>>)
        c == IF e.ok /\ option.tag # "None"
             THEN check_multi_option(option, Len(input))
             ELSE [ok |-> e.ok, out |-> <<>>]
    IN  IF c.ok THEN [done |-> TRUE, ret |-> RetVec(e.nums), out |-> <<>>]
        ELSE [done |-> FALSE, ret |-> NoRet, out |-> e.out \o c.out]

\* Mutant of prompt_multi_number_body: the outcome of the element loop
\* overwrites the outcome of the count check.
prompt_multi_number_body_count_ignored(raw, separator, option, range) ==
    LET input == split(read_line(raw), separator)
        c == IF option.tag # "None" THEN check_multi_option(option, Len(input))
             ELSE [ok |-> TRUE, out |-> <<>>]
        e == parse_elements(input, range, 1, <<>>)
    IN  IF e.ok THEN [done |-> TRUE, ret |-> RetVec(e.nums), out |-> c.out \o e.out]
        ELSE [done |-> FALSE, ret |-> NoRet, out |-> c.out \o e.out]

prompt_multi_number_body(raw, separator, option, range) ==
    LET input == split(read_line(raw), separator)
        c == IF option.tag # "None" THEN check_multi_option(option, Len(input))
             ELSE [ok |-> TRUE, out |-> <<>>]
        e == IF c.ok THEN parse_elements(input, range, 1, <<>>)
             ELSE [ok |-> FALSE, nums |-> <<>>, out |-> <<>>]
    IN  IF e.ok THEN [done |-> TRUE, ret |-> RetVec(e.nums), out |-> c.out \o e.out]
        ELSE [done |-> FALSE, ret |-> NoRet, out |-> c.out \o e.out]

\* Mutant of print_instructions: the body is printed whatever the answer.
print_instructions_always(self, answer) ==
    IF self.multiline
    THEN [i \in 1..Len(self.instructions_multiline) |->
             OutLine("INSTRUCTIONS", self.instructions_multiline[i], 0)]
    ELSE <<OutLine("INSTRUCTIONS", self.instructions, 0)>>

\* The lines Instructions::print writes once prompt_bool has answered.
print_instructions(self, answer) ==
    IF answer
    THEN IF self.multiline
         THEN [i \in 1..Len(self.instructions_multiline) |->
                  OutLine("INSTRUCTIONS", self.instructions_multiline[i], 0)]
         ELSE <<OutLine("INSTRUCTIONS", self.instructions, 0)>>
    ELSE <<>>

Instructions_print_body(raw, self) ==
    LET b == prompt_bool_body(raw, self.ask_numeric[2])
    IN  IF b.done
        THEN [done |-> TRUE, ret |-> RetUnit, out |-> print_instructions(self, b.ret.b)]
        ELSE b

----------------------------------------------------------------------------
\* Calls.

Enter(f, a, nbool) ==
    /\ pc = "idle"
    /\ fn' = f
    /\ args' = a
    /\ pc' = "loop"
    /\ line' = <<>>
    /\ out' = <<>>
    /\ ret' = NoRet
    /\ reads' = 0
    /\ boolCalls' = nbool
    /\ UNCHANGED stdin

Call_prompt_string == Enter("prompt_string", NoArgs, 0)

Call_prompt_bool ==
    \E numeric \in BOOLEAN :
        Enter("prompt_bool", [NoArgs EXCEPT !.numeric = numeric], 1)

Call_prompt_number == Enter("prompt_number", NoArgs, 0)

Call_prompt_number_range ==
    \E range \in ValueRanges :
        Enter("prompt_number_range", [NoArgs EXCEPT !.range = range], 0)

Call_prompt_multi_string ==
    \E separator \in Seps, option \in CountOptions :
        Enter("prompt_multi_string",
              [NoArgs EXCEPT !.sep = separator, !.option = option], 0)

Call_prompt_multi_number ==
    \E separator \in Seps, option \in CountOptions,
       range \in {NoRange} \cup ValueRanges :
        Enter("prompt_multi_number",
              [NoArgs EXCEPT !.sep = separator, !.option = option, !.range = range], 0)

\* Instructions::print up to its first read: nothing when ask_numeric.0 is
\* false, prompt_bool(self.msg, self.ask_numeric.1) otherwise.
Call_Instructions_print ==
    \E self \in InstructionSets :
        /\ pc = "idle"
        /\ fn' = "Instructions_print"
        /\ args' = [NoArgs EXCEPT !.self = self, !.numeric = self.ask_numeric[2]]
        /\ line' = <<>>
        /\ out' = <<>>
        /\ reads' = 0
        /\ IF self.ask_numeric[1]
           THEN pc' = "loop" /\ ret' = NoRet /\ boolCalls' = 1
           ELSE pc' = "done" /\ ret' = RetUnit /\ boolCalls' = 0
        /\ UNCHANGED stdin

----------------------------------------------------------------------------
\* Steps of a call.

\* Mutant of Display: the message is printed before the loop, once.
Display_once ==
    /\ pc = "loop"
    /\ reads < MaxReads
    /\ out' = IF reads = 0 THEN Append(out, Msg) ELSE out
    /\ pc' = "read"
    /\ UNCHANGED <<fn, args, stdin, line, ret, reads, boolCalls>>

\* println!("{}", msg) at the head of a loop body (of prompt_string's body).
Display ==
    /\ pc = "loop"
    /\ reads < MaxReads
    /\ out' = Append(out, Msg)
    /\ pc' = "read"
    /\ UNCHANGED <<fn, args, stdin, line, ret, reads, boolCalls>>

\* What a read_line can receive: a line, or nothing at end of file.
Supply == IF stdin = "eof" THEN {<<>>} ELSE Lines \cup {<<>>}

Pass(f, raw, r) ==
    /\ pc = "read"
    /\ fn = f
    /\ line' = raw
    /\ stdin' = IF raw = <<>> THEN "eof" ELSE stdin
    /\ reads' = reads + 1
    /\ out' = out \o r.out
    /\ pc' = IF r.done THEN "done" ELSE "loop"
    /\ ret' = r.ret
    /\ UNCHANGED <<fn, args, boolCalls>>

prompt_string == \E raw \in Supply :
    Pass("prompt_string", raw, prompt_string_body(raw))

prompt_bool == \E raw \in Supply :
    Pass("prompt_bool", raw, prompt_bool_body(raw, args.numeric))

prompt_number == \E raw \in Supply :
    Pass("prompt_number", raw, prompt_number_body(raw))

prompt_number_range == \E raw \in Supply :
    Pass("prompt_number_range", raw, prompt_number_range_body(raw, args.range))

prompt_multi_string == \E raw \in Supply :
    Pass("prompt_multi_string", raw,
         prompt_multi_string_body(raw, args.sep, args.option))

prompt_multi_number == \E raw \in Supply :
    Pass("prompt_multi_number", raw,
         prompt_multi_number_body(raw, args.sep, args.option, args.range))

Instructions_print == \E raw \in Supply :
    Pass("Instructions_print", raw, Instructions_print_body(raw, args.self))

\* The caller takes the result; nothing of the call is kept.
Return ==
    /\ pc = "done"
    /\ fn' = "none"
    /\ args' = NoArgs
    /\ pc' = "idle"
    /\ line' = <<>>
    /\ out' = <<>>
    /\ ret' = NoRet
    /\ reads' = 0
    /\ boolCalls' = 0
    /\ UNCHANGED stdin

\* read_line's expect("Failed to read line!") on an Err from the stream.
ReadFailed ==
    /\ pc = "read"
    /\ stdin = "open"
    /\ pc' = "panicked"
    /\ UNCHANGED <<fn, args, stdin, line, out, ret, reads, boolCalls>>

Next ==
    \/ Call_prompt_string
    \/ Call_prompt_bool
    \/ Call_prompt_number
    \/ Call_prompt_number_range
    \/ Call_prompt_multi_string
    \/ Call_prompt_multi_number
    \/ Call_Instructions_print
    \/ Display
    \/ prompt_string
    \/ prompt_bool
    \/ prompt_number
    \/ prompt_number_range
    \/ prompt_multi_string
    \/ prompt_multi_number
    \/ Instructions_print
    \/ ReadFailed
    \/ Return

Spec == Init /\ [][Next]_vars


----------------------------------------------------------------------------
\* Vocabulary of the properties.

PromptLoops ==
    {"prompt_bool", "prompt_number", "prompt_number_range",
     "prompt_multi_string", "prompt_multi_number"}

Diagnostics ==
    {"ENTER 1 (YES) OR 0 (NO)", "ENTER A NUMBER (1 OR 0)", "ENTER (Y)ES OR (N)O",
     "ENTER A VALID NUMBER", "ENTER A NUMBER WITHIN", "THERE MUST BE UNITS",
     "AMOUNT OF UNITS MUST BE WITHIN", "NUMBER MUST BE WITHIN", "ENTER ONLY NUMBERS"}

IsDiagnostic(l) == l[1] \in Diagnostics

\* The last line written, when the call was just rejected.
LastOut == out[Len(out)]

\* The call is back at the loop head after rejecting `line`.
Rejected(f) == fn = f /\ pc = "loop" /\ reads > 0

\* The call has returned on `line`.
Returned(f) == fn = f /\ pc = "done"

\* The output is (message, diagnostic)* followed by the n lines of a body.
PromptTrace(n) ==
    /\ \A i \in 1..(Len(out) - n) :
          IF i % 2 = 1 THEN out[i] = Msg ELSE IsDiagnostic(out[i])
    /\ Len(out) - n = CASE pc = "loop" -> 2 * reads
                        [] pc = "done" -> 2 * reads - 1
                        [] OTHER -> 2 * reads + 1

\* The number the last line denotes, and the elements it splits into.
LineNumber == parse_T(to_uppercase(trim(line)))
LineElements == split(to_uppercase(trim(line)), args.sep)

\* raw is tok with surrounding white space, letter case aside.
SameLetter(c, u) ==
    \/ c = u
    \/ <<c, u>> \in {<<"y", "Y">>, <<"e", "E">>, <<"s", "S">>,
                     <<"n", "N">>, <<"o", "O">>, <<"a", "A">>,
                     <<"b", "B">>, <<"c", "C">>, <<"x", "X">>}

NormalizesTo(raw, tok) ==
    \E i \in 0..Len(raw) :
        /\ i + Len(tok) <= Len(raw)
        /\ \A k \in 1..i : raw[k] \in {" ", "\t", "\n", "\r"}
        /\ \A k \in 1..Len(tok) : SameLetter(raw[i + k], tok[k])
        /\ \A k \in (i + Len(tok) + 1)..Len(raw) : raw[k] \in {" ", "\t", "\n", "\r"}

SaysYes(raw) == NormalizesTo(raw, <<"Y", "E", "S">>) \/ NormalizesTo(raw, <<"Y">>)
SaysNo(raw) == NormalizesTo(raw, <<"N", "O">>) \/ NormalizesTo(raw, <<"N">>)

RECURSIVE Join(_, _)
Join(v, sep) ==
    IF Len(v) = 1 THEN v[1] ELSE v[1] \o sep \o Join(Tail(v), sep)

Occurs(p, s) == \E i \in 1..Len(s) : MatchAt(s, p, i)

\* Does an element count l satisfy the count constraint o?
CountAllowed(o, l) ==
    CASE o.tag = "None" -> TRUE
      [] o.tag = "UnitAmount" -> l = o.a
      [] o.tag = "UnitAmountRange" -> o.lo <= l /\ l <= o.hi

----------------------------------------------------------------------------
\* C1: prompt_number_range returns only a value n with low <= n <= high,
\* the number of the line it returned on; every line it rejected either did
\* not parse or lay outside the range, so the value is that of the first
\* acceptable line; a first line in range is accepted with no diagnostic.
C1_RangeResult ==
    /\ Returned("prompt_number_range") =>
          /\ ret.kind = "num"
          /\ args.range.lo <= ret.n /\ ret.n <= args.range.hi
          /\ LineNumber.ok /\ ret.n = LineNumber.n
          /\ reads = 1 => out = <<Msg>>
    /\ Rejected("prompt_number_range") =>
          ~(LineNumber.ok /\ args.range.lo <= LineNumber.n
                          /\ LineNumber.n <= args.range.hi)

C1_Witness ==
    /\ Returned("prompt_number_range")
    /\ args.range = SomeRange(0, 2)
    /\ reads = 2
    /\ ret.n = 2
    /\ out[2] = OutLine("ENTER A NUMBER WITHIN", 0, 2)

\* C2: in every prompt loop each rejected attempt writes exactly one
\* diagnostic line, before the message is displayed again, and the accepted
\* attempt writes none: the output alternates message and diagnostic, one
\* pair per rejected attempt, whatever number of constraints a line violates.
C2_OneDiagnosticPerRejection ==
    fn \in PromptLoops => PromptTrace(0)

C2_Witness ==
    /\ Rejected("prompt_multi_number")
    /\ args.option = UnitAmount(1)
    /\ args.sep = <<" ">>
    /\ args.range = SomeRange(0, 2)
    /\ line = <<"x", " ", "2", "0", "\n">>
    /\ Len(out) = 2

\* C3: prompt_multi_number returns only on a line whose element count
\* satisfies the count constraint, whose every element parses as T and whose
\* every parsed element lies in the value range.
C3_MultiNumberValid ==
    Returned("prompt_multi_number") =>
        /\ CountAllowed(args.option, Len(LineElements))
        /\ \A i \in 1..Len(LineElements) :
              LET p == parse_T(LineElements[i])
              IN  /\ p.ok
                  /\ args.range.some => args.range.lo <= p.n /\ p.n <= args.range.hi

C3_Witness ==
    /\ Returned("prompt_multi_number")
    /\ args.option = UnitAmountRange(2, 2)
    /\ args.range = SomeRange(0, 2)
    /\ reads = 3
    /\ out[2][1] = "AMOUNT OF UNITS MUST BE WITHIN"
    /\ out[4][1] = "NUMBER MUST BE WITHIN"

\* C4: the sequence prompt_multi_number returns is the element-by-element
\* parse, in order, of the last line read, with one value per element;
\* nothing parsed during an earlier rejected attempt is part of it.
C4_MultiNumberResult ==
    Returned("prompt_multi_number") =>
        /\ ret.kind = "vec"
        /\ Len(ret.v) = Len(LineElements)
        /\ \A i \in 1..Len(LineElements) : ret.v[i] = parse_T(LineElements[i]).n

C4_Witness ==
    /\ Returned("prompt_multi_number")
    /\ args.sep = <<" ">>
    /\ args.range = SomeRange(0, 10)
    /\ reads = 2
    /\ out[2] = OutLine("ENTER ONLY NUMBERS", 0, 0)
    /\ line = <<"1", " ", "2", " ", "3", "\n">>
    /\ ret.v = <<1, 2, 3>>

\* C5: a read that meets the end of the input stream is fatal: the call
\* stops there instead of going on as if a line had been read.
C5_EndOfFileIsFatal ==
    (fn \in PromptLoops /\ stdin = "eof" /\ reads > 0 /\ line = <<>>) =>
        pc = "panicked"

\* C6: in numeric mode prompt_bool returns true exactly on a line that
\* parses to 1 and false exactly on one that parses to 0; every line it
\* rejected parsed to neither and was answered by a diagnostic.
C6_NumericBool ==
    LET n == parse_u8(to_uppercase(trim(line)))
    IN  /\ (Returned("prompt_bool") /\ args.numeric) =>
              /\ ret.kind = "bool"
              /\ ret.b <=> (n.ok /\ n.n = 1)
              /\ ~ret.b <=> (n.ok /\ n.n = 0)
        /\ (Rejected("prompt_bool") /\ args.numeric) =>
              /\ ~(n.ok /\ n.n \in {0, 1})
              /\ LastOut[1] \in {"ENTER 1 (YES) OR 0 (NO)", "ENTER A NUMBER (1 OR 0)"}

C6_Witness ==
    /\ Returned("prompt_bool")
    /\ args.numeric
    /\ reads = 3
    /\ ret.b
    /\ out[2][1] = "ENTER 1 (YES) OR 0 (NO)"
    /\ out[4][1] = "ENTER A NUMBER (1 OR 0)"

\* C7: in token mode prompt_bool returns true on a line that is YES or Y
\* and false on one that is NO or N, in any letter case and with any
\* surrounding white space, and prints no diagnostic for it; every other
\* line is answered by "ENTER (Y)ES OR (N)O" and a retry.
C7_TokenBool ==
    /\ (Returned("prompt_bool") /\ ~args.numeric) =>
          /\ ret.kind = "bool"
          /\ ret.b <=> SaysYes(line)
          /\ ~ret.b <=> SaysNo(line)
          /\ Len(out) = 2 * reads - 1
    /\ (Rejected("prompt_bool") /\ ~args.numeric) =>
          /\ ~SaysYes(line) /\ ~SaysNo(line)
          /\ LastOut = OutLine("ENTER (Y)ES OR (N)O", 0, 0)
    /\ (fn = "prompt_bool" /\ ~args.numeric /\ pc = "read" /\ reads > 0) =>
          LastOut = Msg

C7_Witness ==
    /\ Returned("prompt_bool")
    /\ ~args.numeric
    /\ line = <<" ", "y", "e", "s", " ", "\n">>
    /\ ret.b
    /\ out = <<Msg>>


\* C8: prompt_multi_string returns the substrings of the last line read, in
\* order, split on the literal separator; without a count constraint the
\* first line is returned; with an exact count c a line is accepted iff it
\* has c elements, and is otherwise answered by "THERE MUST BE c UNITS";
\* with a count range iff its element count lies in [low, high], both
\* bounds included.
C8_MultiString ==
    /\ Returned("prompt_multi_string") =>
          /\ ret.kind = "vec"
          /\ Len(ret.v) >= 1
          /\ Join(ret.v, args.sep) = to_uppercase(trim(line))
          /\ args.sep # <<>> => \A i \in 1..Len(ret.v) : ~Occurs(args.sep, ret.v[i])
          /\ args.option.tag = "None" => reads = 1
          /\ CountAllowed(args.option, Len(ret.v))
    /\ Rejected("prompt_multi_string") =>
          /\ ~CountAllowed(args.option, Len(LineElements))
          /\ args.option.tag = "UnitAmount" =>
                LastOut = OutLine("THERE MUST BE UNITS", args.option.a, 0)
          /\ args.option.tag = "UnitAmountRange" =>
                LastOut = OutLine("AMOUNT OF UNITS MUST BE WITHIN",
                                  args.option.lo, args.option.hi)

C8_Witness ==
    /\ Returned("prompt_multi_string")
    /\ args.sep = <<",">>
    /\ args.option = UnitAmount(2)
    /\ reads = 2
    /\ out = <<Msg, OutLine("THERE MUST BE UNITS", 2, 0), Msg>>
    /\ ret.v = << <<"A">>, <<"B">> >>

\* C9: Instructions::print with the ask flag false writes nothing and reads
\* nothing; with the ask flag true it runs prompt_bool once, with the
\* numeric flag, and prints the body iff the answer is true: one line in
\* single-line mode, one line per element in order in multiline mode.
C9_InstructionsPrint ==
    fn = "Instructions_print" =>
        LET self == args.self
            numeric == self.ask_numeric[2]
            n == parse_u8(to_uppercase(trim(line)))
            yes == IF numeric THEN n.ok /\ n.n = 1 ELSE SaysYes(line)
            body == IF self.multiline
                    THEN [i \in 1..Len(self.instructions_multiline) |->
                             OutLine("INSTRUCTIONS", self.instructions_multiline[i], 0)]
                    ELSE <<OutLine("INSTRUCTIONS", self.instructions, 0)>>
            shown == IF pc = "done" /\ yes THEN Len(body) ELSE 0
        IN  IF self.ask_numeric[1]
            THEN /\ boolCalls = 1
                 /\ PromptTrace(shown)
                 /\ \A i \in 1..shown : out[Len(out) - shown + i] = body[i]
                 /\ (pc = "loop" /\ reads > 0) =>
                       LastOut[1] \in IF numeric
                                      THEN {"ENTER 1 (YES) OR 0 (NO)",
                                            "ENTER A NUMBER (1 OR 0)"}
                                      ELSE {"ENTER (Y)ES OR (N)O"}
            ELSE /\ pc = "done"
                 /\ out = <<>>
                 /\ reads = 0
                 /\ boolCalls = 0

C9_Witness ==
    /\ Returned("Instructions_print")
    /\ args.self = Instructions_new_multiline(TRUE, FALSE, <<2, 1>>)
    /\ reads = 2
    /\ out = <<Msg, OutLine("ENTER (Y)ES OR (N)O", 0, 0), Msg,
               OutLine("INSTRUCTIONS", 2, 0), OutLine("INSTRUCTIONS", 1, 0)>>

\* C10: with an inverted range (low > high) as the value range of
\* prompt_number_range, as the element range of prompt_multi_number or as
\* the count range of prompt_multi_string or prompt_multi_number, no line is
\* accepted: the call never returns.
InvertedRange ==
    \/ fn = "prompt_number_range" /\ args.range.lo > args.range.hi
    \/ fn = "prompt_multi_number" /\ args.range.some /\ args.range.lo > args.range.hi
    \/ /\ fn \in {"prompt_multi_string", "prompt_multi_number"}
       /\ args.option.tag = "UnitAmountRange"
       /\ args.option.lo > args.option.hi

C10_InvertedRangeNeverReturns ==
    InvertedRange => pc # "done"

C10_Witness ==
    /\ Rejected("prompt_multi_number")
    /\ args.range = SomeRange(2, 0)
    /\ args.option = NoOption
    /\ reads = 2
    /\ line = <<"2", "\n">>
    /\ out[2] = OutLine("NUMBER MUST BE WITHIN", 2, 0)
    /\ out[4] = OutLine("NUMBER MUST BE WITHIN", 2, 0)


\* C11 (no state carried between invocations) compares two runs of a call;
\* it is not a property of one behaviour and has no formula here.

\* C12: prompt_string ends in its first pass for every line, the empty one
\* included: the message is displayed once, one line is consumed, no
\* diagnostic is printed, and the line is returned trimmed and uppercased.
LowerLetters == {"a", "b", "c", "e", "n", "o", "s", "x", "y"}

C12_PromptString ==
    fn = "prompt_string" =>
        /\ pc = "loop" => reads = 0 /\ out = <<>>
        /\ pc \in {"read", "panicked"} => reads = 0 /\ out = <<Msg>>
        /\ pc = "done" =>
              /\ reads = 1
              /\ out = <<Msg>>
              /\ ret.kind = "str"
              /\ NormalizesTo(line, ret.s)
              /\ \A k \in 1..Len(ret.s) : ret.s[k] \notin LowerLetters
              /\ ret.s # <<>> =>
                    /\ ret.s[1] \notin {" ", "\t", "\n", "\r"}
                    /\ ret.s[Len(ret.s)] \notin {" ", "\t", "\n", "\r"}

C12_Witness ==
    /\ Returned("prompt_string")
    /\ line = <<"\n">>
    /\ ret = RetStr(<<>>)
    /\ out = <<Msg>>
    /\ reads = 1

\* C13: in every prompt loop the message is displayed once before each
\* read and each read consumes one line: while a read is pending the
\* messages written are one more than the lines consumed and the message is
\* the last line written; on return the messages written equal the lines
\* consumed equal the rejected attempts plus one, the output being
\* (message, diagnostic)* message.
NumMessages == Cardinality({i \in 1..Len(out) : out[i] = Msg})
NumDiagnostics == Cardinality({i \in 1..Len(out) : IsDiagnostic(out[i])})

C13_MessagePerRead ==
    fn \in PromptLoops =>
        /\ NumMessages + NumDiagnostics = Len(out)
        /\ pc = "loop" => NumMessages = reads /\ NumDiagnostics = reads
        /\ pc \in {"read", "panicked"} =>
              NumMessages = reads + 1 /\ NumDiagnostics = reads /\ LastOut = Msg
        /\ pc = "done" =>
              /\ NumMessages = reads
              /\ NumDiagnostics = reads - 1
              /\ LastOut = Msg
              /\ \A i \in 1..(Len(out) - 1) : (out[i] = Msg) # (out[i + 1] = Msg)

C13_Witness ==
    /\ Returned("prompt_number")
    /\ reads = 3
    /\ out = <<Msg, OutLine("ENTER A VALID NUMBER", 0, 0),
               Msg, OutLine("ENTER A VALID NUMBER", 0, 0), Msg>>
    /\ ret = RetNum(-1)


\* C14: in prompt_multi_number the elements are parsed and range-checked
\* from left to right and the attempt ends at the first failing element:
\* the one diagnostic printed is that of the first failing element, "ENTER
\* ONLY NUMBERS" if it does not parse, "NUMBER MUST BE WITHIN low AND high"
\* if it parses outside the range; no later element is reported.
ElementParses(i) == parse_T(LineElements[i]).ok

ElementFails(i) ==
    LET p == parse_T(LineElements[i])
    IN  \/ ~p.ok
        \/ args.range.some /\ ~(args.range.lo <= p.n /\ p.n <= args.range.hi)

C14_FirstFailingElement ==
    (Rejected("prompt_multi_number")
        /\ CountAllowed(args.option, Len(LineElements))) =>
        LET failing == {i \in 1..Len(LineElements) : ElementFails(i)}
        IN  /\ failing # {}
            /\ LET k == CHOOSE i \in failing : \A j \in failing : i <= j
                IN  LastOut = IF ElementParses(k)
                              THEN OutLine("NUMBER MUST BE WITHIN",
                                           args.range.lo, args.range.hi)
                              ELSE OutLine("ENTER ONLY NUMBERS", 0, 0)
            /\ out[Len(out) - 1] = Msg

C14_Witness ==
    /\ Rejected("prompt_multi_number")
    /\ args.sep = <<" ">>
    /\ args.range = SomeRange(0, 10)
    /\ args.option = NoOption
    /\ reads = 2
    /\ out[2] = OutLine("ENTER ONLY NUMBERS", 0, 0)
    /\ line = <<"2", "0", " ", "x", "\n">>
    /\ out[4] = OutLine("NUMBER MUST BE WITHIN", 0, 10)

\* C15: in prompt_multi_number the count check comes before parsing: a
\* line whose element count violates the count constraint is answered by
\* the count diagnostic alone and a retry, whatever its elements are.
C15_CountCheckFirst ==
    (fn = "prompt_multi_number" /\ reads > 0 /\ pc \in {"loop", "done"}
        /\ ~CountAllowed(args.option, Len(LineElements))) =>
        /\ pc = "loop"
        /\ LastOut = IF args.option.tag = "UnitAmount"
                     THEN OutLine("THERE MUST BE UNITS", args.option.a, 0)
                     ELSE OutLine("AMOUNT OF UNITS MUST BE WITHIN",
                                  args.option.lo, args.option.hi)
        /\ out[Len(out) - 1] = Msg

C15_Witness ==
    /\ Rejected("prompt_multi_number")
    /\ args.sep = <<" ">>
    /\ args.option = UnitAmountRange(0, 1)
    /\ args.range = SomeRange(0, 2)
    /\ reads = 1
    /\ line = <<"x", " ", "2", "0", "\n">>
    /\ out = <<Msg, OutLine("AMOUNT OF UNITS MUST BE WITHIN", 0, 1)>>

\* C16: numeric prompt_bool parses an unsigned 8-bit integer without
\* wrap-around: 1 and 0 are accepted, 2..=255 are answered by "ENTER 1 (YES)
\* OR 0 (NO)", and a number above 255, a negative number, the empty text and
\* a text that is no number by "ENTER A NUMBER (1 OR 0)"; 256 is never
\* taken for 0 nor 257 for 1.
C16_UnsignedByte ==
    LET t == to_uppercase(trim(line))
        ds == IF t # <<>> /\ t[1] = "+" THEN Tail(t) ELSE t
        natural == ds # <<>> /\ \A i \in 1..Len(ds) : ds[i] \in Digits
        v == Magnitude(ds, 0)
    IN  (fn = "prompt_bool" /\ args.numeric /\ reads > 0
            /\ pc \in {"loop", "done"}) =>
            /\ (natural /\ v = 1) => pc = "done" /\ ret.b
            /\ (natural /\ v = 0) => pc = "done" /\ ~ret.b
            /\ (natural /\ 2 <= v /\ v <= 255) =>
                  pc = "loop" /\ LastOut = OutLine("ENTER 1 (YES) OR 0 (NO)", 0, 0)
            /\ (~natural \/ v > 255) =>
                  pc = "loop" /\ LastOut = OutLine("ENTER A NUMBER (1 OR 0)", 0, 0)

C16_Witness ==
    /\ Rejected("prompt_bool")
    /\ args.numeric
    /\ reads = 3
    /\ out[2] = OutLine("ENTER 1 (YES) OR 0 (NO)", 0, 0)
    /\ out[4] = OutLine("ENTER A NUMBER (1 OR 0)", 0, 0)
    /\ line = <<"2", "5", "6", "\n">>
    /\ out[6] = OutLine("ENTER A NUMBER (1 OR 0)", 0, 0)


\* C17: every prompt loop returns at the first line that satisfies all of
\* its constraints: a line is rejected only if it violates one, and accepted
\* only if it violates none; a rejection leads back to the loop head and
\* from there to the next read (AWAITING_INPUT), to no other state.
Acceptable ==
    CASE fn = "prompt_bool" ->
            IF args.numeric
            THEN LET n == parse_u8(to_uppercase(trim(line)))
                 IN  n.ok /\ n.n \in {0, 1}
            ELSE SaysYes(line) \/ SaysNo(line)
      [] fn = "prompt_number" -> LineNumber.ok
      [] fn = "prompt_number_range" ->
            /\ LineNumber.ok
            /\ args.range.lo <= LineNumber.n /\ LineNumber.n <= args.range.hi
      [] fn = "prompt_multi_string" ->
            CountAllowed(args.option, Len(LineElements))
      [] fn = "prompt_multi_number" ->
            /\ CountAllowed(args.option, Len(LineElements))
            /\ \A i \in 1..Len(LineElements) : ~ElementFails(i)
      [] OTHER -> TRUE

AcceptedIffAcceptable ==
    fn \in PromptLoops =>
        /\ pc \in {"loop", "read", "done", "panicked"}
        /\ (reads > 0 /\ pc \in {"loop", "done"}) => (pc = "done" <=> Acceptable)

\* Every step but the display of the message.
OtherStep ==
    \/ Call_prompt_string \/ Call_prompt_bool \/ Call_prompt_number
    \/ Call_prompt_number_range \/ Call_prompt_multi_string
    \/ Call_prompt_multi_number \/ Call_Instructions_print
    \/ prompt_string \/ prompt_bool \/ prompt_number \/ prompt_number_range
    \/ prompt_multi_string \/ prompt_multi_number \/ Instructions_print
    \/ ReadFailed \/ Return

C17_AcceptsFirstAcceptable ==
    /\ AcceptedIffAcceptable
    /\ (fn \in PromptLoops /\ pc = "loop" /\ reads < MaxReads) =>
          ENABLED Display /\ ~ENABLED OtherStep

C17_Witness ==
    /\ Returned("prompt_multi_number")
    /\ args.option = UnitAmount(2)
    /\ args.range = SomeRange(0, 2)
    /\ reads = 3
    /\ out[2][1] = "NUMBER MUST BE WITHIN"
    /\ out[4][1] = "ENTER ONLY NUMBERS"
    /\ ret.v = <<1, 2>>


\* A multi-value call has just handled the line.
MultiHandled(f) == fn = f /\ reads > 0 /\ pc \in {"loop", "done"}

\* The line read is a line (not the end of the stream) and is blank.
EmptyLine == line # <<>> /\ to_uppercase(trim(line)) = <<>>

\* The count constraint requires more than one element.
RequiresSeveral ==
    \/ args.option.tag = "UnitAmount" /\ args.option.a > 1
    \/ args.option.tag = "UnitAmountRange" /\ args.option.lo > 1

\* Element i is empty or has white space at an end.
Untrimmed(i) ==
    LET e == LineElements[i]
    IN  \/ e = <<>>
        \/ e[1] \in {" ", "\t", "\n", "\r"}
        \/ e[Len(e)] \in {" ", "\t", "\n", "\r"}

\* C18 as stated: an empty line is one empty element, which
\* prompt_multi_string without a count constraint returns as a one-element
\* sequence and which fails every count constraint requiring more than one
\* element; in prompt_multi_number a line with an empty element or with an
\* element that has surrounding white space is rejected with "ENTER ONLY
\* NUMBERS".
C18_ElementsVerbatim ==
    /\ (MultiHandled("prompt_multi_string") /\ EmptyLine
            /\ args.option.tag = "None") =>
          pc = "done" /\ ret.v = << <<>> >>
    /\ ((MultiHandled("prompt_multi_string") \/ MultiHandled("prompt_multi_number"))
            /\ EmptyLine /\ RequiresSeveral) =>
          pc = "loop"
    /\ (MultiHandled("prompt_multi_number")
            /\ \E i \in 1..Len(LineElements) : Untrimmed(i)) =>
          pc = "loop" /\ LastOut = OutLine("ENTER ONLY NUMBERS", 0, 0)

\* C18 as amended: the same for a non-empty separator (an empty line splits
\* on the empty separator into two empty elements); and in
\* prompt_multi_number a line with an empty or untrimmed element is never
\* accepted, the diagnostic being "ENTER ONLY NUMBERS" when the count check
\* passes and no element before it is out of range.
C18_ElementsVerbatimNonEmptySeparator ==
    /\ (MultiHandled("prompt_multi_string") /\ EmptyLine /\ args.sep # <<>>
            /\ args.option.tag = "None") =>
          pc = "done" /\ ret.v = << <<>> >>
    /\ ((MultiHandled("prompt_multi_string") \/ MultiHandled("prompt_multi_number"))
            /\ EmptyLine /\ args.sep # <<>> /\ RequiresSeveral) =>
          pc = "loop"
    /\ (MultiHandled("prompt_multi_string") /\ EmptyLine /\ args.sep = <<>>
            /\ args.option.tag = "None") =>
          pc = "done" /\ ret.v = << <<>>, <<>> >>
    /\ MultiHandled("prompt_multi_number") =>
          LET n == Len(LineElements)
              untrimmed == {i \in 1..n : Untrimmed(i)}
          IN  untrimmed # {} =>
                  /\ pc = "loop"
                  /\ (CountAllowed(args.option, n)
                          /\ \E i \in untrimmed :
                                \A j \in 1..(i - 1) : ~ElementFails(j)) =>
                        LastOut = OutLine("ENTER ONLY NUMBERS", 0, 0)

C18_Witness ==
    /\ Rejected("prompt_multi_number")
    /\ args.sep = <<",">>
    /\ args.option = UnitAmount(2)
    /\ args.range = SomeRange(0, 2)
    /\ reads = 3
    /\ out[2] = OutLine("THERE MUST BE UNITS", 2, 0)
    /\ out[4] = OutLine("ENTER ONLY NUMBERS", 0, 0)
    /\ line = <<"1", ",", " ", "2", "\n">>
    /\ out[6] = OutLine("ENTER ONLY NUMBERS", 0, 0)

\* C19: with a non-empty separator every line has at least one element, so
\* a count constraint of exactly 0, or a count range whose upper bound is 0,
\* is never satisfied and the call never returns; and every sequence
\* prompt_multi_string and prompt_multi_number return is non-empty.
C19_AtLeastOneElement ==
    (fn \in {"prompt_multi_string", "prompt_multi_number"} /\ args.sep # <<>>) =>
        /\ reads > 0 => Len(LineElements) >= 1
        /\ (\/ args.option.tag = "UnitAmount" /\ args.option.a = 0
            \/ args.option.tag = "UnitAmountRange" /\ args.option.hi = 0) =>
              pc # "done"
        /\ pc = "done" => Len(ret.v) >= 1

C19_Witness ==
    /\ Rejected("prompt_multi_string")
    /\ args.sep = <<",">>
    /\ args.option = UnitAmountRange(0, 0)
    /\ reads = 3
    /\ line = <<"\n">>
    /\ out = <<Msg, OutLine("AMOUNT OF UNITS MUST BE WITHIN", 0, 0),
               Msg, OutLine("AMOUNT OF UNITS MUST BE WITHIN", 0, 0),
               Msg, OutLine("AMOUNT OF UNITS MUST BE WITHIN", 0, 0)>>

====
